---- MODULE Spec2Model ----
(***************************************************************************)
(* Crawl-and-snapshot state machine of the image-search worker             *)
(* (src/worker.js): the persisted snapshot in the R2 bucket, the crawl     *)
(* batch, the scheduler tick and the admin mutators.                       *)
(*                                                                         *)
(* Strings are sequences of one-character strings, so that the regular     *)
(* expressions, percent-encoding and lowercasing of the source are         *)
(* computed character by character.  JavaScript null / undefined / ""      *)
(* (all falsy, all treated alike by the code paths modelled) are the       *)
(* empty sequence for strings and 0 for lastPage.                          *)
(***************************************************************************)
EXTENDS Integers, Sequences, FiniteSets, TLC

(* ------------------------------------------------------------------ *)
(* Program constants                                                   *)
(* ------------------------------------------------------------------ *)
MAX_PAGES_CAP == 5000
BATCH_PAGES_DEFAULT == 5
CRON_THRESHOLD == 1440
MAX_STEPS == 50
MAX_LASTPAGE == 100000
NoLastPage == 0

ORIGIN ==
  <<"h","t","t","p","s",":","/","/","i","m","a","g","e","s",".",
    "c","h","a","i","n","g","u","a","r","d",".","d","e","v">>

DIR_IMAGE ==
  <<"/","d","i","r","e","c","t","o","r","y","/","i","m","a","g","e","/">>

(* ------------------------------------------------------------------ *)
(* Characters                                                          *)
(* ------------------------------------------------------------------ *)
LowerLetters ==
  <<"a","b","c","d","e","f","g","h","i","j","k","l","m",
    "n","o","p","q","r","s","t","u","v","w","x","y","z">>
UpperLetters ==
  <<"A","B","C","D","E","F","G","H","I","J","K","L","M",
    "N","O","P","Q","R","S","T","U","V","W","X","Y","Z">>
Digits == <<"0","1","2","3","4","5","6","7","8","9">>

Range(s) == {s[i] : i \in DOMAIN s}

\* The({F(x) : x \in {e}}) is F(e) with e evaluated once: x is bound to the
\* value of e, where an operator argument or a LET definition stands for its
\* expression wherever it is used
The(S) == CHOOSE r \in S : TRUE
\* the greatest and the least member of a non-empty set of integers
Greatest(S) == CHOOSE m \in S : \A o \in S : o <= m
Least(S) == CHOOSE m \in S : \A o \in S : m <= o
LowerSet == Range(LowerLetters)
UpperSet == Range(UpperLetters)
DigitSet == Range(Digits)

AlnumSet == LowerSet \cup UpperSet \cup DigitSet
\* \w of a JavaScript regular expression
WordSet == AlnumSet \cup {"_"}
\* [A-Za-z0-9._+\-]
SlugClassSet == AlnumSet \cup {".", "_", "+", "-"}
\* [a-z0-9] and [a-z0-9._+\-]
SlugFirstSet == LowerSet \cup DigitSet
SlugRestSet == SlugFirstSet \cup {".", "_", "+", "-"}

IsUpper(c) == c \in UpperSet
IsAlnum(c) == c \in AlnumSet
IsWordChar(c) == c \in WordSet
IsSlugClassChar(c) == c \in SlugClassSet

IndexIn(c, s) == CHOOSE i \in DOMAIN s : s[i] = c

\* String.prototype.toLowerCase, one character
LowerChar(c) == IF IsUpper(c) THEN LowerLetters[IndexIn(c, UpperLetters)] ELSE c
toLowerCase(s) == [i \in DOMAIN s |-> LowerChar(s[i])]

(* ------------------------------------------------------------------ *)
(* Percent-encoding                                                    *)
(* ------------------------------------------------------------------ *)
\* encodeURIComponent leaves A-Z a-z 0-9 - _ . ! ~ * ' ( ) alone
IsUnreserved(c) == IsAlnum(c) \/ c \in {"-", "_", ".", "!", "~", "*", "'", "(", ")"}

EncodeChar(c) ==
  IF IsUnreserved(c) THEN <<c>>
  ELSE IF c = "+" THEN <<"%", "2", "B">>
  ELSE IF c = "/" THEN <<"%", "2", "F">>
  ELSE IF c = "%" THEN <<"%", "2", "5">>
  ELSE <<"%", "3", "F">>

RECURSIVE encodeURIComponent(_)
encodeURIComponent(s) ==
  The({IF v = <<>> THEN <<>>
       ELSE EncodeChar(Head(v)) \o encodeURIComponent(Tail(v)) : v \in {s}})

DecodeHex(h) ==
  IF h = <<"2", "B">> \/ h = <<"2", "b">> THEN "+"
  ELSE IF h = <<"2", "F">> \/ h = <<"2", "f">> THEN "/"
  ELSE IF h = <<"2", "5">> THEN "%"
  ELSE "?"

RECURSIVE decodeURIComponent(_)
decodeURIComponent(s) ==
  The({IF v = <<>> THEN <<>>
       ELSE IF Head(v) = "%" /\ Len(v) >= 3
            THEN <<DecodeHex(SubSeq(v, 2, 3))>>
                   \o decodeURIComponent(SubSeq(v, 4, Len(v)))
            ELSE <<Head(v)>> \o decodeURIComponent(Tail(v)) : v \in {s}})

(* ------------------------------------------------------------------ *)
(* Slug grammar and denylist                                           *)
(* ------------------------------------------------------------------ *)
\* SLUG_RE = /^[a-z0-9][a-z0-9._+\-]*$/
SLUG_RE(s) ==
  /\ Len(s) >= 1
  /\ s[1] \in SlugFirstSet
  /\ \A i \in 2..Len(s) : s[i] \in SlugRestSet

BAD_SLUGS ==
  { <<"f","i","p","s">>, <<"f","r","e","e">>,
    <<"v","a","l","i","d","a","t","e","d">>,
    <<"h","a","r","d","e","n","e","d">>, <<"s","t","i","g">>,
    <<"l","a","t","e","s","t">>, <<"c","h","a","n","g","e","d">>,
    <<"l","a","s","t">>, <<"t","a","g">> }

(* ------------------------------------------------------------------ *)
(* The slug regular expression shared by extractSlugFromHref and        *)
(* extractSlugFromUrl: the literal /directory/image/, a capture of one  *)
(* alphanumeric followed by class characters (greedy), then \b.          *)
(* ------------------------------------------------------------------ *)
\* \b at the gap after position e of s (end of input counts as non-word)
WordBoundaryAfter(s, e) ==
  LET before == e >= 1 /\ IsWordChar(s[e])
      after  == e + 1 <= Len(s) /\ IsWordChar(s[e + 1])
  IN  before # after

\* the prefix literal matches at position i
PrefixAt(s, i) ==
  /\ i + Len(DIR_IMAGE) - 1 <= Len(s)
  /\ SubSeq(s, i, i + Len(DIR_IMAGE) - 1) = DIR_IMAGE

\* the greedy run of the capture group starting at b: the position before
\* the first character after b that is not a class character
RunEnd(s, b) ==
  Least({k \in (b + 1)..(Len(s) + 1) :
           k > Len(s) \/ ~IsSlugClassChar(s[k])}) - 1

\* backtracking from the greedy run: the longest capture b..e that is
\* followed by \b; 0 when there is none
Backtrack(s, b, run) ==
  Greatest({0} \cup {e \in b..run : WordBoundaryAfter(s, e)})

\* the end of the match that starts at position i, 0 when there is none
MatchEndAt(s, i) ==
  IF PrefixAt(s, i) /\ i + Len(DIR_IMAGE) <= Len(s)
     /\ IsAlnum(s[i + Len(DIR_IMAGE)])
  THEN The({Backtrack(s, b, RunEnd(s, b)) : b \in {i + Len(DIR_IMAGE)}})
  ELSE 0

\* the start positions that have a match
Starts(s) == {i \in 1..Len(s) : s[i] = DIR_IMAGE[1] /\ MatchEndAt(s, i) # 0}

\* exec returns the leftmost match: its capture group 1
SlugCaptureAt(s, starts) ==
  IF starts = {} THEN <<>>
  ELSE The({SubSeq(s, i + Len(DIR_IMAGE), MatchEndAt(s, i)) :
              i \in {Least(starts)}})

\* capture group 1 of the leftmost match, <<>> when there is no match
SlugCapture(s) ==
  The({The({SlugCaptureAt(v, starts) : starts \in {Starts(v)}}) : v \in {s}})

\* String(decodeURIComponent(m[1])).toLowerCase(), kept when it passes
\* SLUG_RE and the denylist; <<>> stands for null
SlugOfCapture(m) ==
  IF m = <<>> THEN <<>>
  ELSE The({IF SLUG_RE(slug) /\ slug \notin BAD_SLUGS THEN slug ELSE <<>> :
              slug \in {toLowerCase(decodeURIComponent(m))}})

extractSlugFromHref(href) ==
  IF href = <<>> THEN <<>>
  ELSE The({SlugOfCapture(m) : m \in {SlugCapture(href)}})

extractSlugFromUrl(url) ==
  IF url = <<>> THEN <<>>
  ELSE The({SlugOfCapture(m) : m \in {SlugCapture(url)}})

\* `${ORIGIN}/directory/image/${encodeURIComponent(slug)}`
CanonicalUrl(slug) == ORIGIN \o DIR_IMAGE \o encodeURIComponent(slug)

(* ------------------------------------------------------------------ *)
(* Bounds of the model                                                 *)
(* ------------------------------------------------------------------ *)
\* number of directory pages the upstream listing has content for
NumPages == 2
\* epoch() (seconds) runs over 1..MaxClock
MaxClock == 2
\* crawls are explored while the cursor is within the pages that have content,
\* or within Window pages of MAX_PAGES_CAP; scheduler ticks are explored while
\* cronTicks is below Window, or within Window ticks of CRON_THRESHOLD
Window == 1

Min(a, b) == IF a <= b THEN a ELSE b
Max(a, b) == IF a >= b THEN a ELSE b

(* ------------------------------------------------------------------ *)
(* sortItems: Array.prototype.sort (stable) with                       *)
(* a.name.localeCompare(b.name, "en", {sensitivity: "base"})           *)
(* ------------------------------------------------------------------ *)
\* primary collation order of the characters a name can contain:
\* punctuation and symbols before digits before letters, case ignored
CollationOrder == <<"_", "-", ".", "+">> \o Digits \o LowerLetters
CollationSet == Range(CollationOrder)
CharRank(c) ==
  LET l == LowerChar(c)
  IN  IF l \in CollationSet THEN IndexIn(l, CollationOrder) ELSE 0

RECURSIVE localeCompare(_, _)
localeCompare(a, b) ==
  IF a = <<>> /\ b = <<>> THEN 0
  ELSE IF a = <<>> THEN -1
  ELSE IF b = <<>> THEN 1
  ELSE IF CharRank(Head(a)) < CharRank(Head(b)) THEN -1
  ELSE IF CharRank(Head(a)) > CharRank(Head(b)) THEN 1
  ELSE localeCompare(Tail(a), Tail(b))

\* insert it after every element that does not compare greater (stable)
RECURSIVE InsertSorted(_, _)
InsertSorted(sorted, it) ==
  IF sorted = <<>> THEN <<it>>
  ELSE IF localeCompare(Head(sorted).name, it.name) <= 0
       THEN <<Head(sorted)>> \o InsertSorted(Tail(sorted), it)
       ELSE <<it>> \o sorted

RECURSIVE SortFrom(_, _)
SortFrom(sorted, rest) ==
  IF rest = <<>> THEN sorted
  ELSE The({SortFrom(nx, Tail(rest)) : nx \in {InsertSorted(sorted, Head(rest))}})

sortItems(items) == The({SortFrom(<<>>, its) : its \in {items}})

Names(items) == {items[i].name : i \in DOMAIN items}

(* ------------------------------------------------------------------ *)
(* Snapshot                                                            *)
(* ------------------------------------------------------------------ *)
\* An in-memory snapshot is a record
\*   [items, seen, seenProto, cursor, lastPage, complete, lastUpdated, cronTicks]
\* where seen is the set of keys set to true and seenProto says whether the
\* seen object inherits from Object.prototype (an object literal) or not
\* (Object.create(null), and any object JSON.parse returns is rebuilt so).

\* lowercase-only property names every object literal inherits; a lookup
\* seen[key] of one of them is truthy without the key ever being set
ObjectPrototypeKeys == { <<"c","o","n","s","t","r","u","c","t","o","r">> }

SeenHas(snap, key) ==
  key \in snap.seen \/ (snap.seenProto /\ key \in ObjectPrototypeKeys)

freshSnapshot(now) ==
  [items |-> <<>>, seen |-> {}, seenProto |-> TRUE, cursor |-> 1,
   lastPage |-> NoLastPage, complete |-> FALSE, lastUpdated |-> now,
   cronTicks |-> 0]

\* JSON.stringify(snap): the blob put under SNAPSHOT_KEY; the prototype of
\* seen is not part of the text
Stringify(snap) ==
  [items |-> snap.items, seen |-> snap.seen, cursor |-> snap.cursor,
   lastPage |-> snap.lastPage, complete |-> snap.complete,
   lastUpdated |-> snap.lastUpdated, cronTicks |-> snap.cronTicks]

\* the bucket holds no object (<<>>) or the one blob (<<blob>>)
saveSnapshot(snap) == <<Stringify(snap)>>

\* a repair pass that does not consult seen
RepairItemKeepDup(acc, candidate) ==
  IF candidate = <<>> \/ ~SLUG_RE(candidate) \/ candidate \in BAD_SLUGS
  THEN acc
  ELSE [minimal |-> Append(acc.minimal,
                      [name |-> candidate, url |-> CanonicalUrl(candidate)]),
        seen |-> acc.seen \cup {candidate}]

\* one iteration of the for-loop of loadSnapshot: acc = [minimal, seen]
RepairItem(acc, candidate) ==
  IF candidate = <<>> \/ ~SLUG_RE(candidate) \/ candidate \in BAD_SLUGS
     \/ candidate \in acc.seen
  THEN acc
  ELSE [minimal |-> Append(acc.minimal,
                      [name |-> candidate, url |-> CanonicalUrl(candidate)]),
        seen |-> acc.seen \cup {candidate}]

\* slugFromUrl || slugFromName
Candidate(it) ==
  The({IF slugFromUrl # <<>> THEN slugFromUrl ELSE toLowerCase(it.name) :
         slugFromUrl \in {extractSlugFromUrl(it.url)}})

\* the for-loop of loadSnapshot
RECURSIVE RepairItems(_, _)
RepairItems(acc, items) ==
  IF items = <<>> THEN acc
  ELSE The({RepairItems(nx, Tail(items)) :
              nx \in {The({RepairItem(acc, c) : c \in {Candidate(Head(items))}})}})

\* the repair pass applied to a parsed blob
Repaired(blob, now, r) ==
  [items |-> sortItems(r.minimal), seen |-> r.seen, seenProto |-> FALSE,
   cursor |-> IF blob.cursor # 0 THEN blob.cursor ELSE 1,
   lastPage |-> blob.lastPage,
   complete |-> blob.complete,
   lastUpdated |-> IF blob.lastUpdated # 0 THEN blob.lastUpdated ELSE now,
   cronTicks |-> blob.cronTicks]

RepairBlob(blob, now) ==
  The({Repaired(blob, now, r) :
         r \in {RepairItems([minimal |-> <<>>, seen |-> {}], blob.items)}})

\* loadSnapshot returns the snapshot and leaves the bucket as given, except
\* that an empty bucket receives a fresh snapshot
loadSnapshot(bkt, now) ==
  IF bkt # <<>>
  THEN [snap |-> RepairBlob(bkt[1], now), bucket |-> bkt]
  ELSE [snap |-> freshSnapshot(now), bucket |-> saveSnapshot(freshSnapshot(now))]

(* ------------------------------------------------------------------ *)
(* Parse                                                               *)
(* ------------------------------------------------------------------ *)
\* A page's markup is the sequence of the href values of its anchors, in
\* document order (what linkRe iterates over).
ParseHref(out, slug) ==
  IF slug = <<>> \/ slug \in Names(out) THEN out
  ELSE Append(out, [name |-> slug, url |-> CanonicalUrl(slug)])

RECURSIVE ParseFrom(_, _)
ParseFrom(out, hrefs) ==
  IF hrefs = <<>> THEN out
  ELSE The({ParseFrom(nx, Tail(hrefs)) :
              nx \in {The({ParseHref(out, slug) :
                             slug \in {extractSlugFromHref(Head(hrefs))}})}})

parseCards(html) == ParseFrom(<<>>, html)

\* fetchDirectoryPage(n): up is the upstream listing, down the pages whose
\* fetch returns a non-ok response in this call; a page the listing does not
\* have is answered non-ok
fetchDirectoryPage(n, up, down) ==
  IF n \in down \/ n \notin DOMAIN up THEN <<>> ELSE parseCards(up[n])

(* ------------------------------------------------------------------ *)
(* Crawl                                                               *)
(* ------------------------------------------------------------------ *)
\* one iteration of the for-loop merging a page: acc = [snap, added]
MergeItem(acc, it) ==
  IF ~SeenHas(acc.snap, it.name)
  THEN [snap |-> [acc.snap EXCEPT !.seen = @ \cup {it.name},
                                  !.items = Append(@, it)],
        added |-> acc.added + 1]
  ELSE acc

\* the for-loop merging one page
RECURSIVE MergePage(_, _)
MergePage(acc, items) ==
  IF items = <<>> THEN acc
  ELSE The({MergePage(nx, Tail(items)) : nx \in {MergeItem(acc, Head(items))}})

\* an iteration that takes any empty page for the end of the listing
CrawlPageEmptyEnds(st, items) ==
  IF Len(items) = 0
  THEN [st EXCEPT !.crawledPages = @ + 1, !.fetched = Append(@, st.page),
                  !.snap.complete = TRUE, !.page = @ + 1, !.stop = TRUE]
  ELSE The({[st EXCEPT !.crawledPages = @ + 1, !.fetched = Append(@, st.page),
                       !.snap = m.snap, !.addedItems = @ + m.added,
                       !.page = @ + 1] :
              m \in {MergePage([snap |-> st.snap, added |-> 0], items)}})

\* one iteration of the while-loop of crawlBatch on the page fetched:
\* st = [snap, page, crawledPages, addedItems, fetched, stop], where stop
\* says that the loop was left by break
CrawlPage(st, items) ==
  IF Len(items) = 0
  THEN IF st.snap.lastPage # NoLastPage /\ st.page >= st.snap.lastPage
       THEN [st EXCEPT !.crawledPages = @ + 1, !.fetched = Append(@, st.page),
                       !.snap.complete = TRUE, !.page = @ + 1, !.stop = TRUE]
       ELSE [st EXCEPT !.crawledPages = @ + 1, !.fetched = Append(@, st.page),
                       !.page = @ + 1]
  ELSE The({[st EXCEPT !.crawledPages = @ + 1, !.fetched = Append(@, st.page),
                       !.snap = m.snap, !.addedItems = @ + m.added,
                       !.page = @ + 1] :
              m \in {MergePage([snap |-> st.snap, added |-> 0], items)}})

\* the while-loop of crawlBatch
RECURSIVE CrawlLoop(_, _, _, _, _)
CrawlLoop(st, steps, hardStop, up, down) ==
  IF st.stop \/ ~(st.crawledPages < steps /\ st.page <= hardStop) THEN st
  ELSE The({CrawlLoop(nx, steps, hardStop, up, down) :
              nx \in {The({CrawlPage(st, items) :
                             items \in {fetchDirectoryPage(st.page, up, down)}})}})

\* the response of crawlBatch
CrawlResult(crawled, added, snap) ==
  [ok |-> TRUE, crawledPages |-> crawled, addedItems |-> added,
   reachedEnd |-> snap.complete, nextCursor |-> snap.cursor,
   total |-> Len(snap.items), lastPage |-> snap.lastPage]

\* a hard stop that ignores lastPage
HardStopCapOnly(snap) == MAX_PAGES_CAP

\* Math.min(snap.lastPage || MAX_PAGES_CAP, MAX_PAGES_CAP)
HardStop(snap) ==
  Min(IF snap.lastPage # NoLastPage THEN snap.lastPage ELSE MAX_PAGES_CAP,
      MAX_PAGES_CAP)

\* a batch that walks from the first page whatever the cursor says
StartPageFromOne(snap) == 1

\* Math.max(1, snap.cursor || 1)
StartPage(snap) == Max(1, IF snap.cursor # 0 THEN snap.cursor ELSE 1)

\* an early return that stamps and saves the snapshot it loaded
CompleteReturnSaving(ld) ==
  [bucket |-> saveSnapshot([ld.snap EXCEPT !.lastUpdated = MaxClock]),
   fetched |-> <<>>, loaded |-> ld.snap, res |-> CrawlResult(0, 0, ld.snap)]

\* the early return of crawlBatch: nothing is fetched and nothing is saved
CompleteReturn(ld) ==
  [bucket |-> ld.bucket, fetched |-> <<>>, loaded |-> ld.snap,
   res |-> CrawlResult(0, 0, ld.snap)]

\* a completion check that fires on reaching lastPage
MarkCompleteAtLast(st) ==
  IF st.snap.lastPage # NoLastPage /\ st.page >= st.snap.lastPage
  THEN [st.snap EXCEPT !.complete = TRUE]
  ELSE st.snap

\* after the loop: the completion check
MarkComplete(st) ==
  IF st.snap.lastPage # NoLastPage /\ st.page > st.snap.lastPage
  THEN [st.snap EXCEPT !.complete = TRUE]
  ELSE st.snap

\* then the cursor, the sort and the stamp
Finished(snap, page, now) ==
  [snap EXCEPT !.cursor = page, !.items = sortItems(@), !.lastUpdated = now]

\* then the save and the response
FinishBatch(st, loaded, now) ==
  The({[bucket |-> saveSnapshot(s2), fetched |-> st.fetched, loaded |-> loaded,
        res |-> CrawlResult(st.crawledPages, st.addedItems, s2)] :
         s2 \in {Finished(MarkComplete(st), st.page, now)}})

\* crawlBatch(env, steps) run at time now, given what its loadSnapshot
\* returned, ld = [snap, bucket]: the bucket it leaves, the pages it fetched
\* in order, the snapshot it loaded and its response
crawlBatch(ld, steps, now, up, down) ==
  IF ld.snap.complete
  THEN CompleteReturn(ld)
  ELSE The({FinishBatch(st, ld.snap, now) :
              st \in {CrawlLoop([snap |-> ld.snap, page |-> StartPage(ld.snap),
                                  crawledPages |-> 0, addedItems |-> 0,
                                  fetched |-> <<>>, stop |-> FALSE],
                                 steps, HardStop(ld.snap), up, down)}})

\* clampInt(v, min, max, fallback): a query parameter is <<>> when it is
\* missing or not a number, and <<n>> when parseInt reads the integer n
clampInt(v, min, max, fallback) ==
  IF v # <<>> THEN Min(Max(v[1], min), max) ELSE fallback

(* ------------------------------------------------------------------ *)
(* Wildcard search                                                     *)
(* ------------------------------------------------------------------ *)
SEARCH_SIZE_DEFAULT == 50

IsSpace(c) == c = " "
\* String.prototype.trim
trim(s) ==
  IF \A i \in DOMAIN s : IsSpace(s[i]) THEN <<>>
  ELSE SubSeq(s, Least({i \in DOMAIN s : ~IsSpace(s[i])}),
                 Greatest({i \in DOMAIN s : ~IsSpace(s[i])}))

\* String.prototype.slice(start, end), indices from 0, negative ones counted
\* from the end
slice(s, start, end) ==
  LET from == IF start < 0 THEN Max(Len(s) + start, 0) ELSE Min(start, Len(s))
      to   == IF end < 0 THEN Max(Len(s) + end, 0) ELSE Min(end, Len(s))
  IN  SubSeq(s, from + 1, to)

startsWith(s, t) == Len(t) <= Len(s) /\ SubSeq(s, 1, Len(t)) = t
endsWith(s, t) == Len(t) <= Len(s) /\ SubSeq(s, Len(s) - Len(t) + 1, Len(s)) = t
includes(s, t) ==
  \E i \in 1..(Len(s) - Len(t) + 1) : SubSeq(s, i, i + Len(t) - 1) = t

\* a prefix query that matches anywhere in the name
matchSlugLoose(slug, query) ==
  IF startsWith(query, <<"*">>) /\ endsWith(query, <<"*">>)
  THEN includes(slug, slice(query, 1, -1))
  ELSE IF startsWith(query, <<"*">>)
  THEN endsWith(slug, slice(query, 1, Len(query)))
  ELSE IF endsWith(query, <<"*">>)
  THEN includes(slug, slice(query, 0, -1))
  ELSE slug = query

matchSlug(slug, query) ==
  IF startsWith(query, <<"*">>) /\ endsWith(query, <<"*">>)
  THEN includes(slug, slice(query, 1, -1))
  ELSE IF startsWith(query, <<"*">>)
  THEN endsWith(slug, slice(query, 1, Len(query)))
  ELSE IF endsWith(query, <<"*">>)
  THEN startsWith(slug, slice(query, 0, -1))
  ELSE slug = query

\* snap.items.filter(i => matchSlug(i.name.toLowerCase(), q))
FilterMatches(items, q) ==
  LET Matches(it) == matchSlug(toLowerCase(it.name), q)
  IN  SelectSeq(items, Matches)

\* page 1 of the matches, sorted, at the default size
SearchPage(items, q) ==
  The({slice(sorted, 0, SEARCH_SIZE_DEFAULT) :
         sorted \in {sortItems(FilterMatches(items, q))}})

(* ------------------------------------------------------------------ *)
(* Upstream listing and request parameters explored                    *)
(* ------------------------------------------------------------------ *)
Href(seg) == DIR_IMAGE \o seg

H_nginx == Href(<<"n","g","i","n","x">>)
H_node == Href(<<"n","o","d","e">>)
H_Node == Href(<<"N","o","d","e">>)
H_plus == Href(<<"a","+","b">>)
H_fips == Href(<<"F","I","P","S">>)
H_ctor == Href(<<"c","o","n","s","t","r","u","c","t","o","r">>)
H_about == <<"/","a","b","o","u","t">>

\* the markup a directory page can have, in the order the listings cycle
\* through
PageKinds ==
  << <<H_nginx, H_Node, H_node>>,
     <<>>,
     <<H_about, H_plus, H_fips>>,
     <<H_ctor>> >>

\* listing k gives page p the markup PageKinds[p + k] (cyclically)
Listing(k) == [p \in 1..NumPages |-> PageKinds[((p + k - 1) % Len(PageKinds)) + 1]]
Listings == {Listing(0), Listing(2)}

\* ?steps= of /admin/build and ?value= of /admin/set-lastpage
StepsParams == {<<>>, <<0>>, <<2>>}
LastPageParams == {<<>>, <<0>>, <<NumPages>>, <<MAX_LASTPAGE + 1>>}

(* ------------------------------------------------------------------ *)
(* State                                                               *)
(* ------------------------------------------------------------------ *)
VARIABLES
  bucket,    \* the R2 bucket: <<>> or <<blob>>, the object under SNAPSHOT_KEY
  upstream,  \* the directory listing: page index -> markup
  last,      \* the request being answered: what it was given and what it did
  inflight   \* requests running concurrently: what each has loaded and put

vars == <<bucket, upstream, last, inflight>>

NoResult ==
  [ok |-> FALSE, crawledPages |-> 0, addedItems |-> 0, reachedEnd |-> FALSE,
   nextCursor |-> 0, total |-> 0, lastPage |-> NoLastPage]

\* op: the handler; arg: its clamped parameter; status: the HTTP status;
\* pre: the bucket when the request arrived; res: the response of the crawl
\* batch, and crawl: what the crawl batch did, namely
\*   mid: the bucket the batch loaded from (for scheduled(), what it saved
\*        before the batch), loaded: the names of the snapshot loaded,
\*   down: the pages answered non-ok, fetched: the pages fetched, in order
NoCrawl == [mid |-> <<>>, loaded |-> {}, down |-> {}, fetched |-> <<>>]
Crawled(mid, r, down) ==
  [mid |-> mid, loaded |-> Names(r.loaded.items), down |-> down,
   fetched |-> r.fetched]
Handled(op, arg, status, pre, crawl, res) ==
  [op |-> op, arg |-> arg, status |-> status, pre |-> pre, crawl |-> crawl,
   res |-> res, q |-> <<>>, found |-> <<>>]
\* a read request: q is the ?q= it was given, found the items it returns
Answered(op, q, found, pre) ==
  [Handled(op, 0, 200, pre, NoCrawl, NoResult) EXCEPT !.q = q, !.found = found]

\* the cursor and tick count the next load will see
CursorOf(bkt) == IF bkt = <<>> THEN 1 ELSE IF bkt[1].cursor # 0 THEN bkt[1].cursor ELSE 1
TicksOf(bkt) == IF bkt = <<>> THEN 0 ELSE bkt[1].cronTicks

CrawlWindowOk(bkt) ==
  \/ bkt # <<>> /\ bkt[1].complete
  \/ CursorOf(bkt) <= NumPages
  \/ CursorOf(bkt) >= MAX_PAGES_CAP - Window
TickWindowOk(bkt) ==
  TicksOf(bkt) < Window \/ TicksOf(bkt) >= CRON_THRESHOLD - Window

\* epoch() when a handler runs: the second the stored snapshot was last
\* stamped in, or a later one
StampOf(bkt) == IF bkt = <<>> THEN 1 ELSE Max(1, bkt[1].lastUpdated)
Times(bkt) == StampOf(bkt)..Min(StampOf(bkt) + 1, MaxClock)
\* the same for a handler that reads epoch() only to make a fresh snapshot
LoadTimes(bkt) == IF bkt = <<>> THEN Times(bkt) ELSE {StampOf(bkt)}

\* the sets of pages whose fetch is answered non-ok during one handler, among
\* the pages from index `from` on: none, one page, or all of them
Outages(from) ==
  {{}} \cup {{p} : p \in from..NumPages} \cup {from..NumPages}

\* Snapshots the worker reaches only after long runs, taken as starting
\* points: cronTicks just below the threshold (that many ticks whose fetches
\* all failed, then a restart-crawl), and the cursor just below the page cap
\* (builds whose fetches all failed).
Checkpoints ==
  { [freshSnapshot(1) EXCEPT !.cronTicks = CRON_THRESHOLD - Window],
    [freshSnapshot(1) EXCEPT !.cursor = MAX_PAGES_CAP - Window] }

\* no request is being answered
Idle == Handled("none", 0, 0, <<>>, NoCrawl, NoResult)

\* Requests that overlap, each a sequence of sections load - modify - save
\* (scheduled() has two: the tick, then its crawl batch). For each writer:
\*   op, arg: the handler and its parameter ("none": no request),
\*   pc: "idle" (before a load), "loaded" (between load and save), "done",
\*   section: which section of the handler it is in,
\*   from: the bucket its load read, snap: the snapshot the load returned,
\*   wrote: what its last save put (<<>>: nothing yet)
\* and log, the loads and saves in the order they happened.
Writers == {1, 2}
NoWriter ==
  [op |-> "none", arg |-> 0, pc |-> "idle", section |-> 1, from |-> <<>>,
   snap |-> freshSnapshot(1), wrote |-> <<>>]
NoWriters == [w |-> [x \in Writers |-> NoWriter], log |-> <<>>]

Init ==
  /\ bucket \in {<<>>} \cup {saveSnapshot(c) : c \in Checkpoints}
  /\ upstream \in Listings
  /\ last = Idle
  /\ inflight = NoWriters

(* ------------------------------------------------------------------ *)
(* Handlers (requests carrying the admin key, with the method required), *)
(* one request at a time                                               *)
(* ------------------------------------------------------------------ *)
\* POST /admin/build?steps=v
Build(v) ==
  /\ last = Idle
  /\ CrawlWindowOk(bucket)
  /\ \E now \in Times(bucket) :
       \E steps \in {clampInt(v, 1, MAX_STEPS, BATCH_PAGES_DEFAULT)},
          ld \in {loadSnapshot(bucket, now)} :
         \E down \in Outages(CursorOf(bucket)) :
           \E r \in {crawlBatch(ld, steps, now, upstream, down)} :
             /\ bucket' = r.bucket
             /\ last' = Handled("build", steps, 200, bucket,
                                 Crawled(bucket, r, down), r.res)
  /\ UNCHANGED <<upstream, inflight>>

\* scheduled(): the tick count, the full-cycle reset and the save
Bumped(snap) == [snap EXCEPT !.cronTicks = @ + 1]

\* a reset that fires only after the threshold has been passed
ScheduledSaveLate(snap) ==
  The({IF bumped.cronTicks > CRON_THRESHOLD
       THEN saveSnapshot([bumped EXCEPT !.complete = FALSE, !.cursor = 1,
                                        !.cronTicks = 0])
       ELSE saveSnapshot(bumped) : bumped \in {Bumped(snap)}})

\* a reset that leaves the cursor where it is
ScheduledSaveKeepCursor(snap) ==
  The({IF bumped.cronTicks >= CRON_THRESHOLD
       THEN saveSnapshot([bumped EXCEPT !.complete = FALSE, !.cronTicks = 0])
       ELSE saveSnapshot(bumped) : bumped \in {Bumped(snap)}})

ScheduledSave(snap) ==
  The({IF bumped.cronTicks >= CRON_THRESHOLD
       THEN saveSnapshot([bumped EXCEPT !.complete = FALSE, !.cursor = 1,
                                        !.cronTicks = 0])
       ELSE saveSnapshot(bumped) : bumped \in {Bumped(snap)}})

\* scheduled(): then one crawl batch; downs are the outages that can occur
ScheduledRun(downs) ==
  /\ last = Idle
  /\ \E now \in Times(bucket) :
       \E mid \in {ScheduledSave(loadSnapshot(bucket, now).snap)} :
         \E ld \in {loadSnapshot(mid, now)}, down \in downs :
           \E r \in {crawlBatch(ld, BATCH_PAGES_DEFAULT, now, upstream, down)} :
             /\ bucket' = r.bucket
             /\ last' = Handled("scheduled", BATCH_PAGES_DEFAULT, 200, bucket,
                                 Crawled(mid, r, down), r.res)
  /\ UNCHANGED <<upstream, inflight>>

Scheduled ==
  /\ CrawlWindowOk(bucket) /\ TickWindowOk(bucket)
  /\ ScheduledRun(Outages(1))

\* a set-lastpage that stores the value and never marks completion
SetLastPageOnly(snap, n) == saveSnapshot([snap EXCEPT !.lastPage = n])

\* POST /admin/set-lastpage?value=v
SetLastPageSave(snap, n) ==
  The({saveSnapshot(IF (IF s1.cursor # 0 THEN s1.cursor ELSE 1) > n
                    THEN [s1 EXCEPT !.complete = TRUE] ELSE s1) :
         s1 \in {[snap EXCEPT !.lastPage = n]}})

SetLastPage(v) ==
  /\ last = Idle
  /\ \E now \in LoadTimes(bucket) :
       \E n \in {clampInt(v, 1, MAX_LASTPAGE, 0)} :
           IF n = 0
           THEN /\ bucket' = bucket
                /\ last' = Handled("set-lastpage", n, 400, bucket, NoCrawl, NoResult)
           ELSE /\ bucket' = SetLastPageSave(loadSnapshot(bucket, now).snap, n)
                /\ last' = Handled("set-lastpage", n, 200, bucket, NoCrawl, NoResult)
  /\ UNCHANGED <<upstream, inflight>>

\* a restart that clears complete and leaves the cursor where it is
RestartCrawlSaveKeepCursor(snap) ==
  saveSnapshot([snap EXCEPT !.complete = FALSE])

\* POST /admin/restart-crawl
RestartCrawlSave(snap) ==
  saveSnapshot([snap EXCEPT !.cursor = 1, !.complete = FALSE])

RestartCrawl ==
  /\ last = Idle
  /\ \E now \in LoadTimes(bucket) :
       bucket' = RestartCrawlSave(loadSnapshot(bucket, now).snap)
  /\ last' = Handled("restart-crawl", 0, 200, bucket, NoCrawl, NoResult)
  /\ UNCHANGED <<upstream, inflight>>

\* POST /admin/repair: after the load, the call of repairSnapshot, which the
\* worker does not define, throws a ReferenceError; the handler answers 500
\* and saves nothing
Repair ==
  /\ last = Idle
  /\ \E now \in LoadTimes(bucket) : bucket' = loadSnapshot(bucket, now).bucket
  /\ last' = Handled("repair", 0, 500, bucket, NoCrawl, NoResult)
  /\ UNCHANGED <<upstream, inflight>>

\* POST /admin/compact
CompactSave(snap) == saveSnapshot([snap EXCEPT !.items = sortItems(@)])

Compact ==
  /\ last = Idle
  /\ \E now \in LoadTimes(bucket) :
       bucket' = CompactSave(loadSnapshot(bucket, now).snap)
  /\ last' = Handled("compact", 0, 200, bucket, NoCrawl, NoResult)
  /\ UNCHANGED <<upstream, inflight>>

\* POST /admin/reset
Reset ==
  /\ last = Idle
  /\ \E now \in Times(bucket) : bucket' = saveSnapshot(freshSnapshot(now))
  /\ last' = Handled("reset", 0, 200, bucket, NoCrawl, NoResult)
  /\ UNCHANGED <<upstream, inflight>>

\* GET /v1/search?q=raw, page and size left to their defaults; an empty q
\* is answered before the snapshot is loaded
Search(raw) ==
  /\ last = Idle
  /\ \E q \in {trim(toLowerCase(raw))} :
       IF q = <<>>
       THEN /\ bucket' = bucket
            /\ last' = Answered("search", raw, <<>>, bucket)
       ELSE \E now \in LoadTimes(bucket) :
              \E ld \in {loadSnapshot(bucket, now)} :
                /\ bucket' = ld.bucket
                /\ last' = Answered("search", raw,
                                    SearchPage(ld.snap.items, q), bucket)
  /\ UNCHANGED <<upstream, inflight>>

\* the response is returned: the worker handles the next request (requests
\* are handled one at a time)
Respond ==
  /\ last # Idle
  /\ last' = Idle
  /\ UNCHANGED <<bucket, upstream, inflight>>

Next ==
  \/ \E v \in StepsParams : Build(v)
  \/ Scheduled
  \/ \E v \in LastPageParams : SetLastPage(v)
  \/ RestartCrawl
  \/ Repair
  \/ Compact
  \/ Reset
  \/ Respond

Spec == Init /\ [][Next]_vars

(* ------------------------------------------------------------------ *)
(* Crawl batches that do not finish: the fetch of a page throws (the   *)
(* exception leaves crawlBatch, /admin/build answers 500) or the host  *)
(* ends the invocation                                                 *)
(* ------------------------------------------------------------------ *)
\* an aborted batch that has saved the pages merged before the abort
AbortedBatchSavingProgress(ld, fetched, now, up, down) ==
  [crawlBatch(ld, Len(fetched) - 1, now, up, down) EXCEPT !.fetched = fetched]

\* crawlBatch left during the fetch of the last page of fetched: the pages
\* before it were merged into the in-memory snapshot only; the bucket is as
\* loadSnapshot left it
AbortedBatch(ld, fetched, now, up, down) ==
  [bucket |-> ld.bucket, fetched |-> fetched, loaded |-> ld.snap,
   res |-> NoResult]

\* POST /admin/build?steps=v whose k-th fetch does not return
BuildAbort(v) ==
  /\ last = Idle
  /\ CrawlWindowOk(bucket)
  /\ \E now \in Times(bucket) :
       \E steps \in {clampInt(v, 1, MAX_STEPS, BATCH_PAGES_DEFAULT)},
          ld \in {loadSnapshot(bucket, now)} :
         \E down \in Outages(CursorOf(bucket)) :
           \E r \in {crawlBatch(ld, steps, now, upstream, down)} :
             \E k \in 1..Len(r.fetched) :
               \E ab \in {AbortedBatch(ld, SubSeq(r.fetched, 1, k), now,
                                       upstream, down)} :
                 /\ bucket' = ab.bucket
                 /\ last' = Handled("build-aborted", steps, 500, bucket,
                                     Crawled(bucket, ab, down), ab.res)
  /\ UNCHANGED <<upstream, inflight>>

\* scheduled() whose crawl batch does not finish: the tick has been saved
ScheduledAbort ==
  /\ last = Idle
  /\ CrawlWindowOk(bucket) /\ TickWindowOk(bucket)
  /\ \E now \in Times(bucket) :
       \E mid \in {ScheduledSave(loadSnapshot(bucket, now).snap)} :
         \E ld \in {loadSnapshot(mid, now)}, down \in Outages(1) :
           \E r \in {crawlBatch(ld, BATCH_PAGES_DEFAULT, now, upstream, down)} :
             \E k \in 1..Len(r.fetched) :
               \E ab \in {AbortedBatch(ld, SubSeq(r.fetched, 1, k), now,
                                       upstream, down)} :
                 /\ bucket' = ab.bucket
                 /\ last' = Handled("scheduled-aborted", BATCH_PAGES_DEFAULT,
                                     500, bucket, Crawled(mid, ab, down), ab.res)
  /\ UNCHANGED <<upstream, inflight>>

NextAbort ==
  \/ Next
  \/ \E v \in StepsParams : BuildAbort(v)
  \/ ScheduledAbort

SpecAbort == Init /\ [][NextAbort]_vars

(* ------------------------------------------------------------------ *)
(* Crawl batches only: /admin/build called again and again, no other   *)
(* request                                                             *)
(* ------------------------------------------------------------------ *)
\* Incomplete snapshots with lastPage known: a fresh snapshot after
\* set-lastpage 1 or NumPages, and a snapshot whose cursor is Window pages
\* below the page cap (builds whose fetches all failed) after set-lastpage
\* with the cap or with the greatest value set-lastpage accepts
BatchStart(c, lp) == [freshSnapshot(1) EXCEPT !.cursor = c, !.lastPage = lp]
BatchStarts ==
  { BatchStart(1, 1), BatchStart(1, NumPages),
    BatchStart(MAX_PAGES_CAP - Window, MAX_PAGES_CAP),
    BatchStart(MAX_PAGES_CAP - Window, MAX_LASTPAGE) }

InitBatches ==
  /\ bucket \in {saveSnapshot(b) : b \in BatchStarts}
  /\ upstream \in Listings
  /\ last = Idle
  /\ inflight = NoWriters

RunBatch == \E v \in StepsParams : Build(v)

NextBatches == RunBatch \/ Respond

\* the caller keeps calling and every call returns
SpecBatches ==
  InitBatches /\ [][NextBatches]_vars /\ WF_vars(RunBatch) /\ WF_vars(Respond)

(* ------------------------------------------------------------------ *)
(* The repair pass on stored snapshots of any parseable content        *)
(* ------------------------------------------------------------------ *)
\* Items a stored snapshot can hold: JSON.parse accepts items with or without
\* a url (<<>> stands for a missing url), and loadSnapshot reads both.
NameOnly(name) == [name |-> name, url |-> <<>>]
StoredItems ==
  { [name |-> <<"n","g","i","n","x">>,
     url |-> CanonicalUrl(<<"n","g","i","n","x">>)],
    [name |-> <<"a","+","b">>, url |-> ORIGIN \o H_plus],
    NameOnly(<<"a","+","b">>),
    NameOnly(<<"a",".">>),
    NameOnly(<<"a","+">>),
    NameOnly(<<"a","-">>),
    NameOnly(<<"N","o","d","e">>) }

\* the longest items array explored
MaxStored == 2

StoredBlob(items) == [Stringify(freshSnapshot(1)) EXCEPT !.items = items]

InitRepair ==
  /\ bucket \in {<<StoredBlob(items)>> :
                   items \in UNION {[1..n -> StoredItems] : n \in 0..MaxStored}}
  /\ upstream = Listing(0)
  /\ last = Idle
  /\ inflight = NoWriters

\* each /admin/compact persists the output of one repair pass
NextRepair == Compact \/ Respond

SpecRepair == InitRepair /\ [][NextRepair]_vars

(* ------------------------------------------------------------------ *)
(* The worker started on a stored snapshot written by earlier versions: *)
(* items arrays with duplicates, mixed case, name and url disagreeing   *)
(* ------------------------------------------------------------------ *)
StoredDuplicates ==
  { << [name |-> <<"n","g","i","n","x">>,
        url |-> CanonicalUrl(<<"n","g","i","n","x">>)],
       [name |-> <<"n","g","i","n","x">>,
        url |-> CanonicalUrl(<<"n","g","i","n","x">>)] >>,
    << NameOnly(<<"N","o","d","e">>), NameOnly(<<"n","o","d","e">>) >>,
    << [name |-> <<"n","g","i","n","x">>,
        url |-> CanonicalUrl(<<"n","o","d","e">>)],
       NameOnly(<<"n","o","d","e">>) >> }

InitStored ==
  /\ bucket \in {<<StoredBlob(items)>> : items \in StoredDuplicates}
  /\ upstream \in Listings
  /\ last = Idle
  /\ inflight = NoWriters

SpecStored == InitStored /\ [][Next]_vars

(* ------------------------------------------------------------------ *)
(* Slug validation: directory pages that link one candidate identifier *)
(* each, and stored snapshots holding one candidate as a name          *)
(* ------------------------------------------------------------------ *)
Candidates ==
  { <<"F","I","P","S">>, <<"-","b","a","d">>,
    <<"l","i","b","s","t","d","c","+","+">>,
    <<"n","g","i","n","x">>, <<"N","o","d","e">>, <<"t","a","g">> }

InitSlug ==
  /\ bucket \in {<<>>} \cup {<<StoredBlob(<<NameOnly(c)>>)>> : c \in Candidates}
  /\ upstream \in {[p \in 1..NumPages |-> <<Href(c)>>] : c \in Candidates}
  /\ last = Idle
  /\ inflight = NoWriters

NextSlug ==
  \/ \E v \in StepsParams : Build(v)
  \/ Compact
  \/ Respond

SpecSlug == InitSlug /\ [][NextSlug]_vars

(* ------------------------------------------------------------------ *)
(* The search read path on a stored catalog                            *)
(* ------------------------------------------------------------------ *)
Item(name) == [name |-> name, url |-> CanonicalUrl(name)]
Catalogs ==
  { << Item(<<"g","o","n","o","d","e">>), Item(<<"n","o","d","e">>),
       Item(<<"n","o","d","e","j","s">>) >>,
    << Item(<<"n","g","i","n","x">>), Item(<<"n","o","d","e">>) >> }

\* ?q= values: a term, bare or with * on either side, as typed or with a
\* blank before or after
Terms ==
  { <<>>, <<"n","o","d","e">>, <<"N","O","D","E">>, <<"n","o">>, <<"d","e">>,
    <<"o","d">>, <<"n","o","*","d","e">> }
Stars == {<<>>, <<"*">>}
Blanks == {<<>>, <<" ">>}
Queries ==
  {b1 \o s1 \o t \o s2 \o b2 :
     b1 \in Blanks, s1 \in Stars, t \in Terms, s2 \in Stars, b2 \in Blanks}

InitSearch ==
  /\ bucket \in {<<>>} \cup {<<StoredBlob(items)>> : items \in Catalogs}
  /\ upstream = Listing(0)
  /\ last = Idle
  /\ inflight = NoWriters

NextSearch ==
  \/ \E raw \in Queries : Search(raw)
  \/ Respond

SpecSearch == InitSearch /\ [][NextSearch]_vars

(* ------------------------------------------------------------------ *)
(* The cron trigger alone: a tick every minute, every fetch answered   *)
(* ok, no admin request                                                *)
(* ------------------------------------------------------------------ *)
\* Snapshots late in a cycle, Window ticks before the threshold, whose walk
\* was answered non-ok throughout (ticks during an outage): the cursor is past
\* every page that has content and no item is stored. lastPage is unset, or
\* was set to 1 or to NumPages and has completed the crawl.
CronStart(lp) ==
  [freshSnapshot(MaxClock) EXCEPT
     !.cronTicks = CRON_THRESHOLD - Window,
     !.lastPage = lp,
     !.cursor = IF lp = NoLastPage THEN MAX_PAGES_CAP + 1 ELSE lp + 1,
     !.complete = lp # NoLastPage]

InitCron ==
  /\ bucket \in {saveSnapshot(CronStart(lp)) : lp \in {NoLastPage, 1, NumPages}}
  /\ upstream \in Listings
  /\ last = Idle
  /\ inflight = NoWriters

\* scheduled() with every fetch answered ok
Tick == ScheduledRun({{}})

NextCron == Tick \/ Respond

\* the cron trigger fires every minute and every invocation returns
SpecCron ==
  InitCron /\ [][NextCron]_vars /\ WF_vars(Tick) /\ WF_vars(Respond)

(* ------------------------------------------------------------------ *)
(* Two requests at once: the worker runs handlers concurrently, each   *)
(* await of loadSnapshot and saveSnapshot being a point where the      *)
(* other request can run                                               *)
(* ------------------------------------------------------------------ *)
\* a put that is refused when the object changed since the writer read it
PutIfUnchanged(current, seen, blob) == IF current = seen THEN blob ELSE current

\* env.IMAGES_BUCKET.put(SNAPSHOT_KEY, ...): unconditional, whatever the
\* bucket holds now (current) and whatever the writer had read (seen)
Put(current, seen, blob) == blob

\* the requests that race: /admin/build?steps=1, /admin/set-lastpage?value=1,
\* /admin/restart-crawl and the cron trigger
RaceOps ==
  { [op |-> "build", arg |-> 1], [op |-> "set-lastpage", arg |-> 1],
    [op |-> "set-lastpage", arg |-> NumPages],
    [op |-> "restart-crawl", arg |-> 0],
    [op |-> "scheduled", arg |-> BATCH_PAGES_DEFAULT] }

\* what the section a writer is in saves, computed from the snapshot it
\* loaded; <<>> when the section returns without saving (a crawl batch on a
\* complete snapshot)
SectionBlob(wr, now) ==
  IF wr.op = "set-lastpage" THEN SetLastPageSave(wr.snap, wr.arg)
  ELSE IF wr.op = "restart-crawl" THEN RestartCrawlSave(wr.snap)
  ELSE IF wr.op = "scheduled" /\ wr.section = 1 THEN ScheduledSave(wr.snap)
  ELSE crawlBatch([snap |-> wr.snap, bucket |-> <<>>], wr.arg, now,
                  upstream, {}).bucket

\* a writer's await loadSnapshot(env): the start of request o, or of the
\* crawl batch of a scheduled() whose tick has been saved
LoadStep(w, o) ==
  /\ inflight.w[w].pc = "idle"
  /\ \/ inflight.w[w].op = "none"
     \/ inflight.w[w].op = o.op /\ inflight.w[w].arg = o.arg
  /\ \E now \in LoadTimes(bucket) :
       \E ld \in {loadSnapshot(bucket, now)} :
         /\ bucket' = ld.bucket
         /\ inflight' =
              [w |-> [inflight.w EXCEPT
                        ![w] = [@ EXCEPT !.op = o.op, !.arg = o.arg,
                                         !.pc = "loaded", !.from = ld.bucket,
                                         !.snap = ld.snap]],
               log |-> Append(inflight.log, [w |-> w, ev |-> "load"])]
  /\ UNCHANGED <<upstream, last>>

\* a writer's modification and await saveSnapshot(env, snap)
SaveStep(w) ==
  /\ inflight.w[w].pc = "loaded"
  /\ \E now \in Times(bucket) :
       \E wr \in {inflight.w[w]} :
         \E blob \in {SectionBlob(wr, now)},
            more \in {wr.op = "scheduled" /\ wr.section = 1} :
           /\ bucket' = IF blob = <<>> THEN bucket
                        ELSE Put(bucket, wr.from, blob)
           /\ inflight' =
                [w |-> [inflight.w EXCEPT
                          ![w] = [wr EXCEPT
                                    !.pc = IF more THEN "idle" ELSE "done",
                                    !.section = IF more THEN 2 ELSE @,
                                    !.wrote = blob]],
                 log |-> IF blob = <<>> THEN inflight.log
                         ELSE Append(inflight.log, [w |-> w, ev |-> "save"])]
  /\ UNCHANGED <<upstream, last>>

InitRace ==
  /\ bucket \in {<<>>, saveSnapshot(freshSnapshot(1))}
                 \cup {saveSnapshot(CronStart(lp)) : lp \in {NoLastPage, 1, NumPages}}
  /\ upstream \in Listings
  /\ last = Idle
  /\ inflight = NoWriters

NextRace ==
  \/ \E w \in Writers : \E o \in RaceOps : LoadStep(w, o)
  \/ \E w \in Writers : SaveStep(w)

SpecRace == InitRace /\ [][NextRace]_vars

\* the two requests in progress, and /admin/reset at any point between their
\* steps (it does not load: its save is its one step)
NextRaceAmong ==
  \/ NextRace
  \/ Reset
  \/ Respond

SpecRaceAmong == InitRace /\ [][NextRaceAmong]_vars

(* ------------------------------------------------------------------ *)
(* Properties                                                          *)
(* ------------------------------------------------------------------ *)
IsCrawl == last.op \in {"build", "scheduled"}
\* the scheduler tick being answered performed the full-cycle reset
TickReset == last.op = "scheduled" /\ TicksOf(last.pre) + 1 >= CRON_THRESHOLD
\* the stored snapshot is complete
CompleteIn(bkt) == bkt # <<>> /\ bkt[1].complete
NamesIn(bkt) == IF bkt = <<>> THEN {} ELSE Names(bkt[1].items)
\* the stored items and lastPage; an empty bucket counts as the fresh snapshot
ItemsOf(bkt) == IF bkt = <<>> THEN <<>> ELSE bkt[1].items
LastPageOf(bkt) == IF bkt = <<>> THEN NoLastPage ELSE bkt[1].lastPage

\* C1 Monotonic cursor: no request other than restart-crawl, a full reset or
\* a scheduler tick that performs the full-cycle reset leaves a persisted
\* cursor smaller than the one persisted when it started (an empty bucket
\* counts as the fresh snapshot's cursor 1); in particular no crawl batch run
\* by /admin/build or by a tick without reset does.
C1_MonotonicCursor ==
  (last.op \notin {"restart-crawl", "reset"} /\ ~TickReset)
    => CursorOf(bucket) >= CursorOf(last.pre)

\* C1 witness: a build that started at a cursor beyond 1 and advanced it
C1_Witness ==
  /\ last.op = "build"
  /\ CursorOf(last.pre) > 1
  /\ CursorOf(bucket) > CursorOf(last.pre)

\* C2 Completion is sticky: a crawl batch that loads a complete snapshot
\* reports crawledPages=0, addedItems=0, reachedEnd=true and the unchanged
\* cursor, fetches no page and leaves the bucket exactly as it was; and no
\* request other than restart-crawl, a full reset or a tick with the
\* full-cycle reset turns a complete snapshot into an incomplete one.
C2_StickyCompletion ==
  /\ (IsCrawl /\ CompleteIn(last.crawl.mid))
       => /\ last.res.crawledPages = 0
          /\ last.res.addedItems = 0
          /\ last.res.reachedEnd
          /\ last.res.nextCursor = CursorOf(last.crawl.mid)
          /\ last.crawl.fetched = <<>>
          /\ bucket = last.crawl.mid
  /\ (last.op \notin {"restart-crawl", "reset"} /\ ~TickReset
      /\ CompleteIn(last.pre))
       => CompleteIn(bucket)

\* C2 witness: a build against a complete snapshot, at a later second than
\* the snapshot's stamp and with pages left below a raised lastPage
C2_Witness ==
  /\ last.op = "build"
  /\ CompleteIn(last.pre)
  /\ last.pre[1].lastUpdated < MaxClock
  /\ last.pre[1].cursor <= last.pre[1].lastPage
  /\ bucket = last.pre

\* the build being answered, run once more after a restart-crawl: the same
\* steps, the same listing and the same pages answered non-ok
RerunAfterRestart ==
  The({crawlBatch(loadSnapshot(restarted, StampOf(bucket)), last.arg,
                  StampOf(bucket), upstream, last.crawl.down) :
         restarted \in {RestartCrawlSave(
                          loadSnapshot(bucket, StampOf(bucket)).snap)}})

\* C3 Idempotent merge: when a build has crawled some pages, the crawl is
\* restarted, and a second build with the same steps crawls the same pages
\* with the same content, the second build reports addedItems = 0 and leaves
\* the same set of item names as the first.
C3_IdempotentMerge ==
  (last.op = "build" /\ last.crawl.fetched # <<>>)
    => \A r \in {RerunAfterRestart} :
         r.fetched = last.crawl.fetched
           => r.res.addedItems = 0 /\ NamesIn(r.bucket) = NamesIn(bucket)

\* the names extracted from the pages the crawl batch being answered fetched
FetchedNames ==
  UNION {Names(fetchDirectoryPage(last.crawl.fetched[i], upstream,
                                  last.crawl.down)) :
           i \in DOMAIN last.crawl.fetched}

\* C4 Merge without loss or duplication: after a crawl batch that loaded an
\* incomplete snapshot, the persisted names are the names of the loaded
\* snapshot united with the names extracted from every page fetched, and
\* addedItems counts the names of the result that the loaded snapshot lacked.
C4_MergeNoLoss ==
  (IsCrawl /\ ~CompleteIn(last.crawl.mid))
    => /\ NamesIn(bucket) = last.crawl.loaded \cup FetchedNames
       /\ last.res.addedItems = Cardinality(NamesIn(bucket) \ last.crawl.loaded)

\* the output of the repair pass that the compact being answered applied to
\* the stored snapshot
RepairedOnce == RepairBlob(last.pre[1], StampOf(last.pre))

\* C5 Repair is a fixed point: the repair pass applied to the output of a
\* repair pass yields the same items, names and urls, as the first pass.
C5_RepairFixedPoint ==
  (last.op = "compact" /\ last.pre # <<>>)
    => \A once \in {RepairedOnce} :
         RepairBlob(Stringify(once), StampOf(last.pre)).items = once.items

\* C6 Scheduler full-cycle reset: a tick whose incremented cronTicks reaches
\* the threshold persists cronTicks=0, cursor=1, complete=false with items and
\* lastPage retained, and its crawl batch starts fetching at page 1; any
\* other tick changes only cronTicks, by +1, before its batch runs.
C6_FullCycleReset ==
  last.op = "scheduled"
    => /\ ItemsOf(last.crawl.mid) = ItemsOf(last.pre)
       /\ LastPageOf(last.crawl.mid) = LastPageOf(last.pre)
       /\ IF TickReset
          THEN /\ TicksOf(last.crawl.mid) = 0
               /\ last.crawl.mid[1].cursor = 1
               /\ ~CompleteIn(last.crawl.mid)
               /\ last.crawl.fetched # <<>>
               /\ last.crawl.fetched[1] = 1
          ELSE /\ TicksOf(last.crawl.mid) = TicksOf(last.pre) + 1
               /\ CursorOf(last.crawl.mid) = CursorOf(last.pre)
               /\ CompleteIn(last.crawl.mid) = CompleteIn(last.pre)

\* min(lastPage if known, 5000) for the stored snapshot
PageLimit(bkt) ==
  Min(IF LastPageOf(bkt) # NoLastPage THEN LastPageOf(bkt) ELSE MAX_PAGES_CAP,
      MAX_PAGES_CAP)

\* C7 cronTicks range: every persisted snapshot has 0 <= cronTicks < 1440;
\* build, set-lastpage, restart-crawl, repair and compact leave cronTicks as
\* they found it, and so does the crawl batch of a scheduler tick.
C7_CronTicksRange ==
  /\ bucket # <<>> => bucket[1].cronTicks \in 0..(CRON_THRESHOLD - 1)
  /\ last.op \in {"build", "set-lastpage", "restart-crawl", "repair", "compact"}
       => TicksOf(bucket) = TicksOf(last.pre)
  /\ last.op = "scheduled" => TicksOf(bucket) = TicksOf(last.crawl.mid)

\* C7 witness: the tick at cronTicks = 1439 wraps to 0 and its batch, which
\* fetches and saves, leaves the 0
C7_Witness ==
  /\ last.op = "scheduled"
  /\ TicksOf(last.pre) = CRON_THRESHOLD - 1
  /\ last.crawl.fetched # <<>>
  /\ TicksOf(bucket) = 0

\* the tick being answered performed the full-cycle reset: cursor back to 1
CycleReset ==
  last.op = "scheduled" /\ TickReset /\ last.crawl.mid[1].cursor = 1
\* the crawl batch being answered fetched page p
Fetches(p) == IsCrawl /\ p \in Range(last.crawl.fetched)
\* the identifiers listing l shows on page p
NamesOn(l, p) == Names(parseCards(l[p]))
\* the directory is listing l, and page p is within min(lastPage, 5000)
ListingIs(l, p) == upstream = l /\ p <= PageLimit(bucket)

\* the tick being answered performs the reset after a cycle that walked every
\* page up to min(lastPage, 5000), the pages with content among them
WalkedBeforeReset ==
  (last.op = "scheduled" /\ TickReset)
    => /\ CursorOf(last.pre) > PageLimit(last.pre)
       /\ \A p \in 1..NumPages : p <= PageLimit(last.pre) => Fetches(p)

\* C8 Periodic re-discovery: with the tick firing again and again, every
\* fetch answered ok and no other writer, (a) cronTicks stays below 1440 and
\* every tick either adds one or performs the reset, and the reset, cursor
\* back to 1, happens again and again: at least once every 1440 ticks;
\* (b) every cycle has walked every page up to min(lastPage, 5000) when the
\* next reset comes, and the batch of the reset tick fetches the pages with
\* content again; (c) an identifier listed on such a page from some point on
\* is contained in the persisted items at some later time, whenever one
\* looks.
C8_PeriodicRediscovery ==
  /\ [](TicksOf(bucket) < CRON_THRESHOLD)
  /\ [](last.op = "scheduled"
         => (TickReset \/ TicksOf(last.crawl.mid) = TicksOf(last.pre) + 1))
  /\ []<>CycleReset
  /\ []WalkedBeforeReset
  /\ \A l \in Listings : \A p \in 1..NumPages : \A n \in NamesOn(l, p) :
       <>[]ListingIs(l, p) => []<>(n \in NamesIn(bucket))

\* C8 witness: the directory has started to list an identifier on a page
\* already walked, and the tick that performs the reset fetches that page
\* again and persists the identifier
C8_Witness ==
  /\ CycleReset
  /\ \E p \in 1..NumPages : \E n \in NamesOn(upstream, p) :
       /\ p <= PageLimit(bucket) /\ Fetches(p)
       /\ n \notin NamesIn(last.pre)
       /\ n \in NamesIn(bucket)

\* C9 Batch bound and sequential order: a crawl batch fetches exactly the
\* pages s, s+1, ..., s+k-1 in that order, s = max(1, loaded cursor) and
\* k = crawledPages, with k <= steps and every page <= min(lastPage if known,
\* 5000); the cursor persisted and returned is s + k.
C9_BatchBound ==
  IsCrawl
    => \A s \in {Max(1, CursorOf(last.crawl.mid))}, k \in {last.res.crawledPages} :
         /\ last.crawl.fetched = [i \in 1..k |-> s + i - 1]
         /\ k <= last.arg
         /\ \A i \in 1..k : last.crawl.fetched[i] <= PageLimit(last.crawl.mid)
         /\ CursorOf(bucket) = s + k
         /\ last.res.nextCursor = s + k

\* C9 witness: a build cut short by a known lastPage: it fetched up to
\* lastPage, fewer pages than steps, without meeting an empty page
C9_Witness ==
  /\ last.op = "build"
  /\ LastPageOf(last.pre) # NoLastPage
  /\ last.res.crawledPages >= 2
  /\ last.res.crawledPages < last.arg
  /\ last.crawl.fetched[last.res.crawledPages] = LastPageOf(last.pre)
  /\ last.res.addedItems >= 2

\* page p of the listing is answered with n items
Yields(p, n) == p \in DOMAIN upstream /\ Len(parseCards(upstream[p])) = n

\* the steps of the scenario: a build on a fresh snapshot that crawled pages
\* 1 and 2, both answered ok
ScenarioCrawl ==
  /\ last.op = "build"
  /\ ItemsOf(last.pre) = <<>> /\ CursorOf(last.pre) = 1
  /\ LastPageOf(last.pre) = NoLastPage /\ ~CompleteIn(last.pre)
  /\ last.crawl.fetched = <<1, 2>> /\ last.crawl.down = {}
\* set-lastpage with value 2 on a snapshot whose cursor is 3
ScenarioSetLastPage ==
  /\ last.op = "set-lastpage" /\ last.status = 200 /\ last.arg = 2
  /\ CursorOf(last.pre) = 3
\* runBatch(5) on a complete snapshot whose cursor is 3
ScenarioRunBatch ==
  /\ last.op = "build" /\ last.arg = 5
  /\ CompleteIn(last.pre) /\ CursorOf(last.pre) = 3

\* C10 End-to-end scenario, where page 1 yields two items and page 2 none:
\* (a) a build on a fresh snapshot that crawls pages 1 and 2 leaves cursor=3,
\* complete=false, lastPage unset and the two items; (b) set-lastpage 2 on a
\* snapshot with cursor 3 marks it complete; (c) a build with steps=5 on a
\* complete snapshot with cursor 3 fetches nothing and reports
\* reachedEnd=true, crawledPages=0, cursor 3.
C10_Scenario ==
  (Yields(1, 2) /\ Yields(2, 0))
    => /\ ScenarioCrawl
            => (CursorOf(bucket) = 3 /\ ~CompleteIn(bucket)
                /\ LastPageOf(bucket) = NoLastPage
                /\ Len(ItemsOf(bucket)) = 2 /\ last.res.addedItems = 2)
       /\ ScenarioSetLastPage
            => (CompleteIn(bucket) /\ LastPageOf(bucket) = 2
                /\ CursorOf(bucket) = 3)
       /\ ScenarioRunBatch
            => (last.crawl.fetched = <<>>
                /\ last.res.reachedEnd /\ last.res.crawledPages = 0
                /\ last.res.nextCursor = 3 /\ CursorOf(bucket) = 3)

\* C10 witness: the last step of the scenario: runBatch(5) on the snapshot
\* holding the two items of page 1, cursor 3, lastPage 2, complete
C10_Witness ==
  /\ Yields(1, 2) /\ Yields(2, 0)
  /\ last.op = "build" /\ last.arg = 5
  /\ CompleteIn(last.pre) /\ CursorOf(last.pre) = 3
  /\ LastPageOf(last.pre) = 2
  /\ NamesIn(last.pre) = Names(parseCards(upstream[1]))
  /\ last.res.reachedEnd /\ last.res.crawledPages = 0

\* C11 Restart-crawl: the snapshot persisted by restart-crawl has cursor=1 and
\* complete=false, and the item names, lastPage and cronTicks of the snapshot
\* persisted before (an empty bucket counts as the fresh snapshot); the
\* handler fetches no page.
C11_RestartCrawl ==
  last.op = "restart-crawl"
    => /\ CursorOf(bucket) = 1
       /\ ~CompleteIn(bucket)
       /\ NamesIn(bucket) = NamesIn(last.pre)
       /\ LastPageOf(bucket) = LastPageOf(last.pre)
       /\ TicksOf(bucket) = TicksOf(last.pre)
       /\ last.crawl.fetched = <<>>

\* C12 Set-last-page: a set-lastpage whose value n is accepted persists
\* lastPage=n, complete=true when the cursor is greater than n and the
\* complete flag it found otherwise, and the cursor, item names and cronTicks
\* it found; the handler fetches no page.
C12_SetLastPage ==
  (last.op = "set-lastpage" /\ last.status = 200)
    => /\ LastPageOf(bucket) = last.arg
       /\ CompleteIn(bucket) =
            (CursorOf(last.pre) > last.arg \/ CompleteIn(last.pre))
       /\ CursorOf(bucket) = CursorOf(last.pre)
       /\ NamesIn(bucket) = NamesIn(last.pre)
       /\ TicksOf(bucket) = TicksOf(last.pre)
       /\ last.crawl.fetched = <<>>

\* no two items of the array have the same name
UniqueNames(items) == Cardinality(Names(items)) = Len(items)
\* the request being answered has put a snapshot
Persisted ==
  /\ last.status = 200
  /\ ~(IsCrawl /\ CompleteIn(last.crawl.mid))

\* C13 No duplicate names: the snapshot loadSnapshot returns from any stored
\* blob (duplicates, mixed case, name and url disagreeing) has no two items of
\* the same name, and neither has any snapshot persisted by a crawl batch, by
\* a scheduler tick (before and after its batch) or by an admin operation,
\* whatever pages were fetched.
C13_NoDuplicateNames ==
  /\ bucket # <<>>
       => UniqueNames(loadSnapshot(bucket, StampOf(bucket)).snap.items)
  /\ Persisted => UniqueNames(ItemsOf(bucket))
  /\ last.op = "scheduled" => UniqueNames(ItemsOf(last.crawl.mid))

\* C13 witness: a build on a stored blob that holds the same name twice,
\* fetching a page that lists a name the blob holds and one it does not
C13_Witness ==
  /\ last.op = "build"
  /\ ~UniqueNames(ItemsOf(last.pre))
  /\ FetchedNames \cap last.crawl.loaded # {}
  /\ last.res.addedItems >= 1
  /\ UniqueNames(ItemsOf(bucket))

\* the rule of the claim: the candidate, lowercased, when it matches
\* ^[a-z0-9][a-z0-9._+-]*$ and is not in the denylist; <<>> when rejected
KeptAs(c) ==
  IF SLUG_RE(toLowerCase(c)) /\ toLowerCase(c) \notin BAD_SLUGS
  THEN toLowerCase(c) ELSE <<>>
\* the candidate identifiers linked from page p: what follows
\* /directory/image/ in each href
LinkedOn(p) ==
  {SubSeq(upstream[p][j], Len(DIR_IMAGE) + 1, Len(upstream[p][j])) :
     j \in DOMAIN upstream[p]}
\* the candidates on the pages the build being answered was served
ServedCandidates ==
  UNION {LinkedOn(last.crawl.fetched[i]) :
           i \in {j \in DOMAIN last.crawl.fetched :
                    /\ last.crawl.fetched[j] \in DOMAIN upstream
                    /\ last.crawl.fetched[j] \notin last.crawl.down}}
\* every stored item has a name and no url
NameOnlyItems(bkt) ==
  \A i \in DOMAIN ItemsOf(bkt) : ItemsOf(bkt)[i].url = <<>>

\* C14 Slug validation: a candidate identifier is kept exactly when, after
\* lowercasing, it matches ^[a-z0-9][a-z0-9._+-]*$ and is not in the
\* denylist, and it is kept under its lowercased name: a build adds to the
\* loaded names exactly the kept candidates linked from the pages it was
\* served, and a load of stored items that carry only a name keeps exactly
\* the kept names ("FIPS" and "-bad" rejected, "libstdc++" kept as
\* "libstdc++").
C14_SlugValidation ==
  /\ (last.op = "build" /\ ~CompleteIn(last.crawl.mid))
       => NamesIn(bucket) =
            last.crawl.loaded \cup ({KeptAs(c) : c \in ServedCandidates} \ {<<>>})
  /\ (last.op = "compact" /\ NameOnlyItems(last.pre))
       => NamesIn(bucket) =
            {KeptAs(n) : n \in NamesIn(last.pre)} \ {<<>>}

\* the rule of the claim for a name and a query, both lowercased: exact
\* without a star at either end, prefix for term*, suffix for *term, contains
\* for *term*
WildcardRule(name, q) ==
  LET left  == q # <<>> /\ q[1] = "*"
      right == q # <<>> /\ q[Len(q)] = "*"
  IN  IF left /\ right
      THEN \E i \in 1..(Len(name) + 1) : \E j \in (i - 1)..Len(name) :
             SubSeq(name, i, j) = SubSeq(q, 2, Len(q) - 1)
      ELSE IF right
      THEN \E j \in 0..Len(name) : SubSeq(name, 1, j) = SubSeq(q, 1, Len(q) - 1)
      ELSE IF left
      THEN \E i \in 1..(Len(name) + 1) :
             SubSeq(name, i, Len(name)) = SubSeq(q, 2, Len(q))
      ELSE name = q
\* the names the search being answered had to choose from, and those it found
Searchable == Names(loadSnapshot(last.pre, StampOf(last.pre)).snap.items)
FoundNames == Names(last.found)
Node == <<"n","o","d","e">>
NodeFamily == {Node, Node \o <<"j","s">>, <<"g","o">> \o Node}
\* the search being answered was given the query q over node, nodejs, gonode
Example(q) == last.op = "search" /\ last.q = q /\ Searchable = NodeFamily

\* C15 Wildcard search: with the query lowercased and trimmed of surrounding
\* blanks, a query that is then empty finds nothing, and otherwise a name is
\* found iff the wildcard rule matches it, case-insensitively. For node,
\* nodejs, gonode: node finds node; node* finds node, nodejs; *node finds
\* node, gonode; *node* finds all three.
C15_WildcardSearch ==
  /\ last.op = "search"
       => \A q \in {trim(toLowerCase(last.q))} :
            IF q = <<>> THEN last.found = <<>>
            ELSE \A n \in Searchable :
                   n \in FoundNames <=> WildcardRule(toLowerCase(n), q)
  /\ Example(Node) => FoundNames = {Node}
  /\ Example(Node \o <<"*">>) => FoundNames = {Node, Node \o <<"j","s">>}
  /\ Example(<<"*">> \o Node) => FoundNames = {Node, <<"g","o">> \o Node}
  /\ Example(<<"*">> \o Node \o <<"*">>) => FoundNames = NodeFamily

\* C15 witness: the prefix query node* over node, nodejs, gonode
C15_Witness ==
  /\ Example(Node \o <<"*">>)
  /\ FoundNames = {Node, Node \o <<"j","s">>}

\* C15 as stated: for every non-empty query as given, a name is found iff the
\* wildcard rule matches it, case-insensitively.
C15_AsStated ==
  (last.op = "search" /\ last.q # <<>>)
    => \A n \in Searchable :
         n \in FoundNames <=> WildcardRule(toLowerCase(n), toLowerCase(last.q))

\* the i-th page the crawl batch being answered fetched yielded zero items
\* (an empty page, or a page answered non-ok)
EmptyAt(i) ==
  Len(fetchDirectoryPage(last.crawl.fetched[i], upstream, last.crawl.down)) = 0
\* the crawl batch being answered went on from its i-th page to the next
\* index, as far as steps and the page cap allow
ContinuesAfter(i) ==
  IF i < last.arg /\ last.crawl.fetched[i] + 1 <= MAX_PAGES_CAP
  THEN /\ i < Len(last.crawl.fetched)
       /\ last.crawl.fetched[i + 1] = last.crawl.fetched[i] + 1
  ELSE /\ i = Len(last.crawl.fetched)
       /\ CursorOf(bucket) = last.crawl.fetched[i] + 1

\* C16 Empty-page handling: in a crawl batch, a page that yields zero items
\* (a non-ok fetch included) while lastPage is unknown does not set complete
\* and the batch continues with the next index; while lastPage is known and
\* the page index is >= lastPage, it sets complete=true, the cursor is
\* persisted one past that page and no further page is fetched. A crawl batch
\* never sets complete=true while lastPage is unknown.
C16_EmptyPage ==
  (IsCrawl /\ ~CompleteIn(last.crawl.mid))
    => /\ \A i \in DOMAIN last.crawl.fetched :
            EmptyAt(i)
              => IF LastPageOf(last.crawl.mid) = NoLastPage
                 THEN ~CompleteIn(bucket) /\ ContinuesAfter(i)
                 ELSE last.crawl.fetched[i] >= LastPageOf(last.crawl.mid)
                        => /\ CompleteIn(bucket)
                           /\ CursorOf(bucket) = last.crawl.fetched[i] + 1
                           /\ i = Len(last.crawl.fetched)
       /\ LastPageOf(last.crawl.mid) = NoLastPage => ~CompleteIn(bucket)

\* C16 witness: a build with lastPage unknown whose first page was answered
\* non-ok and which went on to fetch the next page and merged its items
C16_Witness ==
  /\ last.op = "build"
  /\ LastPageOf(last.crawl.mid) = NoLastPage
  /\ Len(last.crawl.fetched) >= 2
  /\ last.crawl.fetched[1] \in last.crawl.down
  /\ EmptyAt(1)
  /\ last.res.addedItems >= 1
  /\ ~CompleteIn(bucket)

\* C17 Completion detection after a batch: a crawl batch that loaded an
\* incomplete snapshot persists complete=true, and reports reachedEnd=true,
\* if and only if lastPage is known and the cursor it persists is greater
\* than lastPage, however its loop ended.
C17_CompletionDetection ==
  (IsCrawl /\ ~CompleteIn(last.crawl.mid))
    => /\ CompleteIn(bucket)
            <=> (LastPageOf(bucket) # NoLastPage
                 /\ CursorOf(bucket) > LastPageOf(bucket))
       /\ last.res.reachedEnd <=> CompleteIn(bucket)

\* C17 witness: a build that ended on the steps bound, its last page being
\* lastPage and yielding items, and is complete
C17_Witness ==
  /\ last.op = "build"
  /\ ~CompleteIn(last.crawl.mid)
  /\ last.res.crawledPages = last.arg
  /\ last.crawl.fetched[last.arg] = LastPageOf(last.crawl.mid)
  /\ ~EmptyAt(last.arg)
  /\ CompleteIn(bucket) /\ last.res.reachedEnd

\* the positions of the saves in the log, the last of them and the one before
SaveAt == {i \in DOMAIN inflight.log : inflight.log[i].ev = "save"}
PrevSave == Greatest(SaveAt \ {Len(inflight.log)})
\* the writer that saved last, and the writer that saved just before
Later == inflight.log[Len(inflight.log)].w
Earlier == inflight.log[PrevSave].w
\* the load of the section the writer w has just saved
LoadOf(w) ==
  Greatest({i \in DOMAIN inflight.log :
              inflight.log[i].w = w /\ inflight.log[i].ev = "load"})
\* two writers have just saved one after the other, and the later saver had
\* loaded before the earlier one saved
Overlapped ==
  /\ Cardinality(SaveAt) >= 2
  /\ inflight.log[Len(inflight.log)].ev = "save"
  /\ Earlier # Later
  /\ LoadOf(Later) < PrevSave
  /\ inflight.w[Earlier].wrote # <<>>
\* the later saver is a crawl batch: a build or the batch of a scheduled()
LaterIsBatch ==
  \/ inflight.w[Later].op = "build"
  \/ inflight.w[Later].op = "scheduled" /\ inflight.w[Later].pc = "done"

\* C18 Lost update under concurrent writers: when two requests have both
\* loaded the snapshot before either saves, the snapshot persisted after both
\* saves is the one the later saver computed from its own stale load: what it
\* does not modify is as it loaded it, and the earlier saver's change (its
\* lastPage, its cronTicks increment or reset, the items it added, its cursor
\* advance) is absent.
C18_LostUpdate ==
  Overlapped
    => \A x \in {inflight.w[Earlier]}, y \in {inflight.w[Later]} :
         /\ bucket = y.wrote
         /\ y.op \in {"set-lastpage", "restart-crawl"}
              => /\ NamesIn(bucket) = Names(y.snap.items)
                 /\ TicksOf(bucket) = y.snap.cronTicks
                 /\ (NamesIn(x.wrote) \ Names(y.snap.items)) \cap NamesIn(bucket) = {}
         /\ y.op = "set-lastpage" => CursorOf(bucket) = y.snap.cursor
         /\ y.op # "set-lastpage" => LastPageOf(bucket) = y.snap.lastPage
         /\ LaterIsBatch => TicksOf(bucket) = y.snap.cronTicks
         /\ (x.op = "set-lastpage" /\ y.op # "set-lastpage"
             /\ y.snap.lastPage # x.arg)
              => LastPageOf(bucket) # x.arg
         /\ (x.op = "scheduled" /\ (y.op # "scheduled" \/ LaterIsBatch)
             /\ TicksOf(x.wrote) # y.snap.cronTicks)
              => TicksOf(bucket) # TicksOf(x.wrote)

\* C18 witness: a build and a set-lastpage both loaded the fresh snapshot;
\* the build saved items and an advanced cursor, then the set-lastpage saved:
\* the bucket has lastPage and neither the items nor the cursor of the build
C18_Witness ==
  /\ Overlapped
  /\ inflight.w[Earlier].op = "build"
  /\ inflight.w[Later].op = "set-lastpage"
  /\ NamesIn(inflight.w[Earlier].wrote) # {}
  /\ CursorOf(inflight.w[Earlier].wrote) = 2
  /\ NamesIn(bucket) = {}
  /\ CursorOf(bucket) = 1
  /\ LastPageOf(bucket) = 1

\* the crawl batch of the request being answered was aborted
Aborted == last.op \in {"build-aborted", "scheduled-aborted"}

\* C19 An aborted crawl batch persists no progress: the bucket is as it was
\* when the batch was called, except that a batch called on an empty bucket
\* leaves the fresh snapshot its load created; cursor, items and complete are
\* what the batch loaded, lastUpdated of a stored snapshot is untouched, and
\* the names merged from the pages fetched before the abort are not saved.
C19_AbortPersistsNothing ==
  Aborted
    => /\ last.crawl.mid # <<>> => bucket = last.crawl.mid
       /\ last.crawl.mid = <<>>
            => \E now \in 1..MaxClock : bucket = saveSnapshot(freshSnapshot(now))
       /\ CursorOf(bucket) = CursorOf(last.crawl.mid)
       /\ ItemsOf(bucket) = ItemsOf(last.crawl.mid)
       /\ CompleteIn(bucket) = CompleteIn(last.crawl.mid)

\* C19 witness: a build on a stored snapshot aborted in the fetch of its
\* second page, after it had merged new names from the first
C19_Witness ==
  /\ last.op = "build-aborted"
  /\ last.pre # <<>>
  /\ Len(last.crawl.fetched) = 2
  /\ Names(fetchDirectoryPage(last.crawl.fetched[1], upstream, last.crawl.down))
       \ NamesIn(last.pre) # {}
  /\ bucket = last.pre

\* C19 as stated: an aborted crawl batch persists nothing: the bucket is
\* exactly as it was before the call.
C19_AsStated == Aborted => bucket = last.crawl.mid

\* C20 Complete means walked: in every persisted snapshot, complete=true
\* implies that lastPage is known and cursor > lastPage.
C20_CompleteMeansWalked ==
  CompleteIn(bucket)
    => /\ LastPageOf(bucket) # NoLastPage
       /\ CursorOf(bucket) > LastPageOf(bucket)

\* the crawl batch being answered fetched no page and left the snapshot
\* incomplete
Stalled ==
  IsCrawl /\ last.crawl.fetched = <<>> /\ ~CompleteIn(bucket)

\* C21 Eventual completion: from an incomplete snapshot with lastPage known
\* (any value set-lastpage accepts), crawl batches with steps >= 1 called
\* again and again, with no other request, eventually persist complete=true,
\* and no batch fetches zero pages while leaving the snapshot incomplete.
C21_EventualCompletion ==
  /\ [](~Stalled)
  /\ <>CompleteIn(bucket)

\* C22 Slug/URL round trip: every persisted item carries the canonical url of
\* its name, re-deriving the slug from that url yields the name again, and a
\* load of the persisted snapshot returns the items under the same names.
C22_RoundTrip ==
  /\ \A i \in DOMAIN ItemsOf(bucket) :
       /\ ItemsOf(bucket)[i].url = CanonicalUrl(ItemsOf(bucket)[i].name)
       /\ extractSlugFromUrl(CanonicalUrl(ItemsOf(bucket)[i].name))
            = ItemsOf(bucket)[i].name
  /\ bucket # <<>>
       => Names(loadSnapshot(bucket, StampOf(bucket)).snap.items)
            = NamesIn(bucket)

\* C23 With concurrent writers, every persisted snapshot has cursor >= 1
\* and, whenever lastPage is known and cursor > lastPage, complete=true.
C23_RaceInvariant ==
  bucket # <<>>
    => /\ bucket[1].cursor >= 1
       /\ (bucket[1].lastPage # NoLastPage
           /\ bucket[1].cursor > bucket[1].lastPage)
            => bucket[1].complete

\* C23 witness: a restart-crawl and a set-lastpage both loaded the complete
\* snapshot; the restart saved cursor 1, then the set-lastpage saved its
\* stale cursor, past lastPage, with complete=true
C23_Witness ==
  /\ Overlapped
  /\ inflight.w[Earlier].op = "restart-crawl"
  /\ inflight.w[Later].op = "set-lastpage"
  /\ CursorOf(inflight.w[Earlier].wrote) = 1
  /\ LastPageOf(bucket) # NoLastPage
  /\ CursorOf(bucket) > LastPageOf(bucket)
  /\ CompleteIn(bucket)

====
